---- MODULE Spec2Model ----
(***************************************************************************)
(* Session state machine of the exam-practice application:                 *)
(* practiceReducer, the PracticeProvider effects (one-second interval and  *)
(* exam-history save) and the localStorage history log of                  *)
(* src/src/contexts/PracticeContext.tsx.                                   *)
(*                                                                         *)
(* Conventions                                                             *)
(*  - null / undefined is the record NULL; an unset endTime is 0.          *)
(*  - option ids ('q3_option_0', 'q3_option_1', ...) are the numbers       *)
(*    0, 1, ... in the same order as the strings' default sort order.      *)
(*  - questions.currentIndex is 0-based as in the code; sequences here are *)
(*    1-based, so the current question is current[currentIndex + 1].       *)
(*  - every object calculateResults returns is a fresh object; its         *)
(*    identity is the field ref, which differs from the ref of the object  *)
(*    it replaces (the history effect compares consecutive references).    *)
(*  - a dispatch is one step: the reducer runs, React commits, and the two *)
(*    effects run before the next event is handled.                        *)
(***************************************************************************)
EXTENDS Integers, Sequences, FiniteSets, TLC

VARIABLES state, timerRef, examHistory, nextSessionId, ticks,
          modifications, editingQuestion,
          mockStorage, nextId, now,
          callStack, proxy,
          failures,
          mountLoad

vars == <<state, timerRef, examHistory, nextSessionId, ticks,
          modifications, editingQuestion,
          mockStorage, nextId, now,
          callStack, proxy,
          failures,
          mountLoad>>

\* what no dispatch of the practice reducer changes: the stored question
\* modifications and the question open in the admin page's editor, the API
\* route's store, the Edge-Function storage manager and the mount-time load
admin == <<modifications, editingQuestion,
          mockStorage, nextId, now,
          callStack, proxy,
          failures,
          mountLoad>>

NULL == [null |-> TRUE]

\* no question has a stored modification
NoModifications == [id \in {1, 2} |-> NULL]

\* ------------------------------------------------------------------ bounds
MaxSessions == 2
MaxResults == 2
MaxHistory == 2
MaxAnswerLen == 2
MaxAppends == 2
MaxSubmits == 3

\* ------------------------------------------------------- program constants
HistoryLimit == 50
TimeSpentPerQuestion == 60
SecondsPerMinute == 60

\* ------------------------------------------------------------ pure helpers
RECURSIVE SortInsert(_, _)
SortInsert(x, s) ==
    IF s = <<>> THEN <<x>>
    ELSE IF x <= Head(s) THEN <<x>> \o s
    ELSE <<Head(s)>> \o SortInsert(x, Tail(s))

\* Array.prototype.sort() with the default comparison
RECURSIVE Sort(_)
Sort(s) == IF s = <<>> THEN <<>> ELSE SortInsert(Head(s), Sort(Tail(s)))

\* a.length === b.length && a.every(item => b.includes(item))
arraysEqual(a, b) ==
    /\ Len(a) = Len(b)
    /\ \A i \in DOMAIN a : \E j \in DOMAIN b : a[i] = b[j]

\* Math.round(x / y * 100) for 0 <= x <= y, y > 0 (halves round up)
RoundPercentTruncated(x, y) == (100 * x) \div y

RoundPercent(x, y) == (200 * x + y) \div (2 * y)

\* Math.ceil(n / d) for n >= 0, d > 0
CeilDivFloor(n, d) == n \div d

CeilDiv(n, d) == (n + d - 1) \div d

\* every outcome of the Fisher-Yates shuffle of s: the permutations of s
shuffleArrayCopying(s) ==
    LET n == Len(s)
    IN {[i \in 1..n |-> s[f[i]]] : f \in [1..n -> 1..n]}

shuffleArray(s) ==
    LET n == Len(s)
        Bij == {f \in [1..n -> 1..n] : \A i, j \in 1..n : f[i] = f[j] => i = j}
    IN {[i \in 1..n |-> s[f[i]]] : f \in Bij}

RECURSIVE SelectSeq2(_, _)
\* Array.prototype.filter by topic
SelectSeq2(s, topics) ==
    IF s = <<>> THEN <<>>
    ELSE IF Head(s).topic \in topics
         THEN <<Head(s)>> \o SelectSeq2(Tail(s), topics)
         ELSE SelectSeq2(Tail(s), topics)

RECURSIVE CountCorrect(_)
CountCorrect(qr) ==
    IF qr = <<>> THEN 0
    ELSE (IF Head(qr).isCorrect THEN 1 ELSE 0) + CountCorrect(Tail(qr))

RECURSIVE SumTimeSpent(_)
SumTimeSpent(qr) ==
    IF qr = <<>> THEN 0 ELSE Head(qr).timeSpent + SumTimeSpent(Tail(qr))

Min(S) == CHOOSE x \in S : \A y \in S : x <= y

\* one step of the topic reduce of calculateResults
TopicStepCountAll(acc, question, questionResults) ==
    LET hits == {i \in DOMAIN questionResults :
                    questionResults[i].questionId = question.id}
        at == {k \in DOMAIN acc : acc[k].topic = question.topic}
        acc1 == IF at = {}
                THEN Append(acc, [topic |-> question.topic, totalQuestions |-> 0,
                                  correctAnswers |-> 0, score |-> 0])
                ELSE acc
        k == CHOOSE k \in DOMAIN acc1 : acc1[k].topic = question.topic
        total == acc1[k].totalQuestions + 1
        correct == acc1[k].correctAnswers
                     + (IF hits # {} /\ questionResults[Min(hits)].isCorrect THEN 1 ELSE 0)
    IN [acc1 EXCEPT ![k] = [topic |-> question.topic, totalQuestions |-> total,
                            correctAnswers |-> correct,
                            score |-> RoundPercent(correct, total)]]

TopicStep(acc, question, questionResults) ==
    LET hits == {i \in DOMAIN questionResults :
                    questionResults[i].questionId = question.id}
    IN IF hits = {} THEN acc
       ELSE
         LET result == questionResults[Min(hits)]
             at == {k \in DOMAIN acc : acc[k].topic = question.topic}
             acc1 == IF at = {}
                     THEN Append(acc, [topic |-> question.topic, totalQuestions |-> 0,
                                       correctAnswers |-> 0, score |-> 0])
                     ELSE acc
             k == CHOOSE k \in DOMAIN acc1 : acc1[k].topic = question.topic
             total == acc1[k].totalQuestions + 1
             correct == acc1[k].correctAnswers + (IF result.isCorrect THEN 1 ELSE 0)
         IN [acc1 EXCEPT ![k] = [topic |-> question.topic, totalQuestions |-> total,
                                 correctAnswers |-> correct,
                                 score |-> RoundPercent(correct, total)]]

RECURSIVE TopicReduce(_, _, _)
TopicReduce(acc, questions, questionResults) ==
    IF questions = <<>> THEN acc
    ELSE TopicReduce(TopicStep(acc, Head(questions), questionResults),
                     Tail(questions), questionResults)

\* identity of a freshly allocated results object, given the one it replaces
FreshRef(old) == IF old = NULL THEN 1 ELSE 3 - old.ref

calculateResults(questionResults, questions, ref) ==
    LET totalQuestions == Len(questionResults)
        correctAnswers == CountCorrect(questionResults)
    IN [ref |-> ref,
        totalQuestions |-> totalQuestions,
        correctAnswers |-> correctAnswers,
        score |-> IF totalQuestions > 0
                  THEN RoundPercent(correctAnswers, totalQuestions) ELSE 0,
        timeSpent |-> SumTimeSpent(questionResults),
        topicResults |-> TopicReduce(<<>>, questions, questionResults),
        questionResults |-> questionResults]

\* ------------------------------------------------------------ the reducer
initialState ==
    [session |-> NULL,
     questions |-> [original |-> <<>>, current |-> <<>>, currentIndex |-> 0,
                    totalCount |-> 0],
     answers |-> [submitted |-> <<>>, current |-> <<>>, isSubmitted |-> FALSE],
     ui |-> [showResults |-> FALSE]]

\* START_SESSION up to the random choices: the filtered question list
FilterQuestionsAlways(configuration, questions) ==
    SelectSeq2(questions, configuration.selectedTopics)

FilterQuestions(configuration, questions) ==
    IF configuration.selectedTopics # {}
    THEN SelectSeq2(questions, configuration.selectedTopics)
    ELSE questions

\* the possible values of currentQuestions (question order and option order)
StartOutcomes(configuration, questions) ==
    LET filtered == FilterQuestions(configuration, questions)
        ordered == IF configuration.shuffleEnabled
                   THEN shuffleArray(filtered) ELSE {filtered}
        OptionOutcomes(qs) ==
            {[i \in DOMAIN qs |-> [qs[i] EXCEPT !.options = f[i]]] :
                f \in {g \in [DOMAIN qs -> UNION {shuffleArray(qs[i].options) : i \in DOMAIN qs}] :
                          \A i \in DOMAIN qs : g[i] \in shuffleArray(qs[i].options)}}
    IN IF configuration.shuffleOptions
       THEN UNION {OptionOutcomes(qs) : qs \in ordered}
       ELSE ordered

SessionModeAlwaysExam(configuration) == "exam"

\* mode: configuration.timerEnabled ? 'exam' : 'practice'
SessionMode(configuration) ==
    IF configuration.timerEnabled THEN "exam" ELSE "practice"

ReduceStartSession(s, a) ==
    LET configuration == a.configuration
        currentQuestions == a.currentQuestions
        totalTimeAllowed ==
            IF configuration.timerEnabled
            THEN CeilDiv(Len(currentQuestions) * configuration.minutesPerQuestion.num
                           * SecondsPerMinute,
                         configuration.minutesPerQuestion.den)
            ELSE 0
        session ==
            [id |-> a.sessionId,
             mode |-> SessionMode(configuration),
             configuration |-> configuration,
             progress |-> [answeredQuestions |-> 0, correctAnswers |-> 0,
                           questionResults |-> <<>>],
             timer |-> [totalTimeAllowed |-> totalTimeAllowed,
                        timeRemaining |-> totalTimeAllowed,
                        isActive |-> configuration.timerEnabled],
             endTime |-> 0,
             results |-> NULL]
        \* the filter and the spreads copy the array, never the question
        \* objects: an option shuffle is seen through payload.questions too
        original ==
            [i \in DOMAIN a.questions |->
               IF \E k \in DOMAIN currentQuestions :
                     currentQuestions[k].id = a.questions[i].id
               THEN currentQuestions[CHOOSE k \in DOMAIN currentQuestions :
                                       currentQuestions[k].id = a.questions[i].id]
               ELSE a.questions[i]]
    IN [s EXCEPT !.session = session,
                 !.questions = [original |-> original, current |-> currentQuestions,
                                currentIndex |-> 0, totalCount |-> Len(currentQuestions)],
                 !.answers = [submitted |-> <<>>, current |-> <<>>, isSubmitted |-> FALSE],
                 !.ui.showResults = FALSE]

ReduceAnswerQuestion(s, a) == [s EXCEPT !.answers.current = a.answers]

\* mutant: the result is appended but a correct answer is not counted
ScoreAndAppendUncounted(s) ==
    LET idx == s.questions.currentIndex + 1
        currentQuestion == s.questions.current[idx]
        sortedSelected == Sort(s.answers.current)
        sortedCorrect == Sort(currentQuestion.correctAnswers)
        questionResult ==
            [questionId |-> currentQuestion.id,
             selectedAnswers |-> sortedSelected,
             correctAnswers |-> sortedCorrect,
             isCorrect |-> arraysEqual(sortedSelected, sortedCorrect),
             timeSpent |-> TimeSpentPerQuestion,
             attempts |-> 1]
    IN [s EXCEPT
          !.session.progress.answeredQuestions = @ + 1,
          !.session.progress.questionResults = Append(@, questionResult),
          !.questions.current[idx].correctAnswers = sortedCorrect,
          !.answers.current = sortedSelected,
          !.answers.isSubmitted = TRUE]

\* SUBMIT_ANSWER past its early returns: score the current question and append
ScoreAndAppend(s) ==
    LET idx == s.questions.currentIndex + 1
        currentQuestion == s.questions.current[idx]
        \* both sort() calls sort the arrays of the state in place
        sortedSelected == Sort(s.answers.current)
        sortedCorrect == Sort(currentQuestion.correctAnswers)
        isCorrect == arraysEqual(sortedSelected, sortedCorrect)
        questionResult ==
            [questionId |-> currentQuestion.id,
             selectedAnswers |-> sortedSelected,
             correctAnswers |-> sortedCorrect,
             isCorrect |-> isCorrect,
             timeSpent |-> TimeSpentPerQuestion,
             attempts |-> 1]
    IN [s EXCEPT
          !.session.progress.answeredQuestions = @ + 1,
          !.session.progress.correctAnswers = @ + (IF isCorrect THEN 1 ELSE 0),
          !.session.progress.questionResults = Append(@, questionResult),
          !.questions.current[idx].correctAnswers = sortedCorrect,
          !.answers.current = sortedSelected,
          !.answers.isSubmitted = TRUE]

\* mutant: SUBMIT_ANSWER without the isSubmitted early return
ReduceSubmitAnswerResubmit(s) ==
    IF s.session = NULL THEN s
    ELSE IF s.questions.currentIndex + 1 \notin DOMAIN s.questions.current THEN s
    ELSE ScoreAndAppend(s)

ReduceSubmitAnswer(s) ==
    IF s.session = NULL \/ s.answers.isSubmitted THEN s
    ELSE IF s.questions.currentIndex + 1 \notin DOMAIN s.questions.current THEN s
    ELSE ScoreAndAppend(s)

ReduceNextQuestionKeepBuffer(s) ==
    LET nextIndex == s.questions.currentIndex + 1
        isLastQuestion == nextIndex >= s.questions.totalCount
    IN IF isLastQuestion
       THEN [s EXCEPT !.ui.showResults = TRUE]
       ELSE [s EXCEPT !.questions.currentIndex = nextIndex]

ReduceNextQuestion(s) ==
    LET nextIndex == s.questions.currentIndex + 1
        isLastQuestion == nextIndex >= s.questions.totalCount
    IN IF isLastQuestion
       THEN [s EXCEPT !.ui.showResults = TRUE]
       ELSE [s EXCEPT !.questions.currentIndex = nextIndex,
                      !.answers.current = <<>>,
                      !.answers.isSubmitted = FALSE]

ReducePreviousQuestion(s) ==
    LET prevIndex == IF s.questions.currentIndex - 1 > 0
                     THEN s.questions.currentIndex - 1 ELSE 0
    IN [s EXCEPT !.questions.currentIndex = prevIndex,
                 !.answers.current = <<>>,
                 !.answers.isSubmitted = FALSE]

ReduceFinishSession(s) ==
    IF s.session = NULL THEN s
    ELSE
      LET results == calculateResults(s.session.progress.questionResults,
                                      s.questions.current, FreshRef(s.session.results))
      IN [s EXCEPT !.session.endTime = results.ref,
                   !.session.results = results,
                   !.ui.showResults = TRUE]

ReduceResetSession(s) == initialState

\* UPDATE_TIMER when the timer runs out: auto-finish
ExpireTimer(s) ==
    LET results == calculateResults(s.session.progress.questionResults,
                                    s.questions.current, FreshRef(s.session.results))
    IN [s EXCEPT !.session.endTime = results.ref,
                 !.session.results = results,
                 !.session.timer.timeRemaining = 0,
                 !.session.timer.isActive = FALSE,
                 !.ui.showResults = TRUE]

\* mutant: the auto-finish test is timeRemaining < 0
ReduceUpdateTimerLate(s, a) ==
    IF s.session = NULL THEN s
    ELSE IF a.timeRemaining < 0 THEN ExpireTimer(s)
    ELSE [s EXCEPT !.session.timer.timeRemaining = a.timeRemaining]

ReduceUpdateTimer(s, a) ==
    IF s.session = NULL THEN s
    ELSE IF a.timeRemaining <= 0 THEN ExpireTimer(s)
    ELSE [s EXCEPT !.session.timer.timeRemaining = a.timeRemaining]

ReducePauseTimer(s) ==
    IF s.session = NULL THEN s ELSE [s EXCEPT !.session.timer.isActive = FALSE]

ReduceResumeTimer(s) ==
    IF s.session = NULL THEN s ELSE [s EXCEPT !.session.timer.isActive = TRUE]

ReduceEndExamEarly(s) ==
    IF s.session = NULL THEN s
    ELSE
      LET results == calculateResults(s.session.progress.questionResults,
                                      s.questions.current, FreshRef(s.session.results))
      IN [s EXCEPT !.session.endTime = results.ref,
                   !.session.results = results,
                   !.session.timer.isActive = FALSE,
                   !.ui.showResults = TRUE]

practiceReducer(s, a) ==
    CASE a.type = "START_SESSION" -> ReduceStartSession(s, a)
      [] a.type = "ANSWER_QUESTION" -> ReduceAnswerQuestion(s, a)
      [] a.type = "SUBMIT_ANSWER" -> ReduceSubmitAnswer(s)
      [] a.type = "NEXT_QUESTION" -> ReduceNextQuestion(s)
      [] a.type = "PREVIOUS_QUESTION" -> ReducePreviousQuestion(s)
      [] a.type = "FINISH_SESSION" -> ReduceFinishSession(s)
      [] a.type = "RESET_SESSION" -> ReduceResetSession(s)
      [] a.type = "UPDATE_TIMER" -> ReduceUpdateTimer(s, a)
      [] a.type = "PAUSE_TIMER" -> ReducePauseTimer(s)
      [] a.type = "RESUME_TIMER" -> ReduceResumeTimer(s)
      [] a.type = "END_EXAM_EARLY" -> ReduceEndExamEarly(s)
      [] OTHER -> s

\* ------------------------------------------------------- history (storage)
\* mutant: on overflow the newest entries are cut instead of the oldest
saveExamHistoryDropNewest(stored, history) ==
    LET historyArray == <<history>> \o stored
    IN IF Len(historyArray) > HistoryLimit
       THEN SubSeq(historyArray, Len(historyArray) - HistoryLimit + 1, Len(historyArray))
       ELSE historyArray

\* unshift, then splice(HistoryLimit) when longer than HistoryLimit
saveExamHistory(stored, history) ==
    LET historyArray == <<history>> \o stored
    IN IF Len(historyArray) > HistoryLimit
       THEN SubSeq(historyArray, 1, HistoryLimit)
       ELSE historyArray

getExamHistory(stored) == stored

\* ------------------------------------------------------ provider effects
SessionResultsOf(s) == IF s.session = NULL THEN NULL ELSE s.session.results

TimerDeps(s) ==
    IF s.session = NULL THEN NULL
    ELSE [isActive |-> s.session.timer.isActive,
          timeRemaining |-> s.session.timer.timeRemaining]

\* timer effect: on a change of its dependencies the cleanup clears the old
\* interval, then the effect schedules a new one (capturing timeRemaining) or
\* leaves none
TimerEffect(pre, post, ref) ==
    IF TimerDeps(pre) = TimerDeps(post) THEN ref
    ELSE IF post.session # NULL /\ post.session.timer.isActive
            /\ post.session.timer.timeRemaining > 0
         THEN [captured |-> post.session.timer.timeRemaining]
         ELSE NULL

\* the ExamHistory record the effect passes to saveExamHistory
ExamHistoryOf(s) ==
    [sessionId |-> s.session.id,
     mode |-> s.session.mode,
     userAnswers |-> s.answers.submitted]

\* mutant: the effect saves a finished session whatever its mode
HistoryEffectAnyMode(pre, post, stored) ==
    IF SessionResultsOf(pre) = SessionResultsOf(post) THEN stored
    ELSE IF post.session # NULL /\ post.session.results # NULL
         THEN saveExamHistory(stored, ExamHistoryOf(post))
         ELSE stored

\* history effect: runs when state.session?.results changes identity
HistoryEffect(pre, post, stored) ==
    IF SessionResultsOf(pre) = SessionResultsOf(post) THEN stored
    ELSE IF post.session # NULL /\ post.session.results # NULL
            /\ post.session.mode = "exam"
         THEN saveExamHistory(stored, ExamHistoryOf(post))
         ELSE stored

\* ------------------------------------------------------------ inputs
\* question bank returned by loadQuestionsFromFile
Bank ==
    << [id |-> 1, topic |-> "X", options |-> <<0, 1, 2>>, correctAnswers |-> <<0>>],
       [id |-> 2, topic |-> "Y", options |-> <<0, 1, 2>>, correctAnswers |-> <<0, 1>>] >>

Configuration(topics, shuffle, timer, mpq) ==
    [selectedTopics |-> topics, shuffleEnabled |-> shuffle, shuffleOptions |-> FALSE,
     autoAdvance |-> FALSE, showFeedback |-> TRUE, timerEnabled |-> timer,
     minutesPerQuestion |-> mpq]

\* minutesPerQuestion = 1/64 minute: exact in binary floating point
Configs ==
    {Configuration(t, FALSE, e, [num |-> 1, den |-> 64]) :
        t \in {{}, {"X"}}, e \in BOOLEAN}

\* payloads of ANSWER_QUESTION tried by the session specification
AnswerChoices == {<<0>>}

\* ------------------------------------------------------------ actions
Complete(s) == s.session # NULL /\ s.session.results # NULL

Dispatch(a) ==
    LET post == practiceReducer(state, a)
    IN /\ state' = post
       /\ timerRef' = TimerEffect(state, post, timerRef)
       /\ examHistory' = HistoryEffect(state, post, examHistory)
       /\ Len(examHistory') <= MaxHistory
       /\ UNCHANGED admin

StartSession ==
    /\ nextSessionId <= MaxSessions
    /\ \E configuration \in Configs :
         \E cur \in StartOutcomes(configuration, Bank) :
           Dispatch([type |-> "START_SESSION", configuration |-> configuration,
                     questions |-> Bank, currentQuestions |-> cur,
                     sessionId |-> nextSessionId])
    /\ nextSessionId' = nextSessionId + 1
    /\ ticks' = 0

AnswerQuestion ==
    /\ \E answers \in AnswerChoices :
         Dispatch([type |-> "ANSWER_QUESTION", answers |-> answers])
    /\ UNCHANGED <<nextSessionId, ticks>>

SubmitAnswer ==
    /\ Dispatch([type |-> "SUBMIT_ANSWER"])
    /\ state'.session # NULL =>
         Len(state'.session.progress.questionResults) <= MaxResults
    /\ UNCHANGED <<nextSessionId, ticks>>

NextQuestion ==
    /\ Dispatch([type |-> "NEXT_QUESTION"])
    /\ UNCHANGED <<nextSessionId, ticks>>

PreviousQuestion ==
    /\ Dispatch([type |-> "PREVIOUS_QUESTION"])
    /\ UNCHANGED <<nextSessionId, ticks>>

FinishSession ==
    /\ Dispatch([type |-> "FINISH_SESSION"])
    /\ UNCHANGED <<nextSessionId, ticks>>

EndExamEarly ==
    /\ Dispatch([type |-> "END_EXAM_EARLY"])
    /\ UNCHANGED <<nextSessionId, ticks>>

ResetSession ==
    /\ Dispatch([type |-> "RESET_SESSION"])
    /\ UNCHANGED <<nextSessionId, ticks>>

PauseTimer ==
    /\ Dispatch([type |-> "PAUSE_TIMER"])
    /\ UNCHANGED <<nextSessionId, ticks>>

ResumeTimer ==
    /\ Dispatch([type |-> "RESUME_TIMER"])
    /\ UNCHANGED <<nextSessionId, ticks>>

\* the interval callback: dispatches the captured timeRemaining minus one
Tick ==
    /\ timerRef # NULL
    /\ Dispatch([type |-> "UPDATE_TIMER", timeRemaining |-> timerRef.captured - 1])
    /\ ticks' = ticks + 1
    /\ UNCHANGED nextSessionId

Init ==
    /\ state = initialState
    /\ timerRef = NULL
    /\ examHistory = <<>>
    /\ nextSessionId = 1
    /\ ticks = 0
    /\ modifications = NoModifications
    /\ editingQuestion = NULL
    /\ mockStorage = <<>>
    /\ nextId = 1
    /\ now = 0
    /\ callStack = <<>>
    /\ proxy = "repo"
    /\ failures = 0
    /\ mountLoad = "done"

Next ==
    \/ StartSession
    \/ AnswerQuestion
    \/ SubmitAnswer
    \/ NextQuestion
    \/ PreviousQuestion
    \/ FinishSession
    \/ EndExamEarly
    \/ ResetSession
    \/ PauseTimer
    \/ ResumeTimer
    \/ Tick

Spec == Init /\ [][Next]_vars

\* ---------------------------------------------------------------------------
\* Scoring specification: a practice session over the whole bank in which
\* ANSWER_QUESTION carries any array of option ids of length <= MaxAnswerLen
\* (repeated ids included).
OptionIds == {0, 1, 2}

AllAnswers == UNION {[1..n -> OptionIds] : n \in 0..MaxAnswerLen}

StartAction(configuration, cur, id) ==
    [type |-> "START_SESSION", configuration |-> configuration, questions |-> Bank,
     currentQuestions |-> cur, sessionId |-> id]

\* the states START_SESSION produces from the initial state for the given
\* configurations
StartedStates(configs) ==
    {practiceReducer(initialState, StartAction(c, cur, 1)) :
        c \in configs, cur \in UNION {StartOutcomes(c, Bank) : c \in configs}}

AnswerAny ==
    /\ \E answers \in AllAnswers :
         Dispatch([type |-> "ANSWER_QUESTION", answers |-> answers])
    /\ UNCHANGED <<nextSessionId, ticks>>

ScoringConfigs == {Configuration({}, FALSE, FALSE, [num |-> 1, den |-> 64])}

ScoringInit ==
    /\ state \in StartedStates(ScoringConfigs)
    /\ timerRef = TimerEffect(initialState, state, NULL)
    /\ examHistory = <<>>
    /\ nextSessionId = 2
    /\ ticks = 0
    /\ modifications = NoModifications
    /\ editingQuestion = NULL
    /\ mockStorage = <<>>
    /\ nextId = 1
    /\ now = 0
    /\ callStack = <<>>
    /\ proxy = "repo"
    /\ failures = 0
    /\ mountLoad = "done"

ScoringNext ==
    \/ AnswerAny
    \/ SubmitAnswer
    \/ NextQuestion
    \/ PreviousQuestion

ScoringSpec == ScoringInit /\ [][ScoringNext]_vars

\* ---------------------------------------------------------------------------
\* Expiry specification: an exam session whose timer is never paused, ended or
\* reset and on which the user does nothing more: the only step is the firing
\* of the interval, which is fair (setInterval keeps firing while scheduled).
\* The session starts either untouched or with its first question answered
\* and submitted.
ExpiryConfigs ==
    {Configuration(t, s, TRUE, [num |-> 1, den |-> d]) :
        t \in {{}, {"X"}, {"Y"}}, s \in BOOLEAN, d \in {64, 32, 16, 8}}

FirstSubmitted(s) ==
    practiceReducer(practiceReducer(s, [type |-> "ANSWER_QUESTION", answers |-> <<0>>]),
                    [type |-> "SUBMIT_ANSWER"])

ExpiryInit ==
    /\ \E c \in ExpiryConfigs : \E cur \in StartOutcomes(c, Bank) :
         LET started == practiceReducer(initialState, StartAction(c, cur, 1))
         IN state \in {started, FirstSubmitted(started)}
    /\ timerRef = TimerEffect(initialState, state, NULL)
    /\ examHistory = <<>>
    /\ nextSessionId = 2
    /\ ticks = 0
    /\ modifications = NoModifications
    /\ editingQuestion = NULL
    /\ mockStorage = <<>>
    /\ nextId = 1
    /\ now = 0
    /\ callStack = <<>>
    /\ proxy = "repo"
    /\ failures = 0
    /\ mountLoad = "done"

ExpiryNext == Tick

ExpirySpec == ExpiryInit /\ [][ExpiryNext]_vars /\ WF_vars(Tick)

\* ---------------------------------------------------------------------------
\* History specification: the stored log holds any number 0..HistoryLimit of
\* records of earlier sessions (ids -1 the newest, -2, ... the oldest) and
\* records of new sessions 1, 2, ... are saved one after the other.
HistoryRecord(id) == [sessionId |-> id, mode |-> "exam", userAnswers |-> <<>>]

StoredBefore(k) == [i \in 1..k |-> HistoryRecord(0 - i)]

HistoryInit ==
    /\ state = initialState
    /\ timerRef = NULL
    /\ \E k \in 0..HistoryLimit : examHistory = StoredBefore(k)
    /\ nextSessionId = 1
    /\ ticks = 0
    /\ modifications = NoModifications
    /\ editingQuestion = NULL
    /\ mockStorage = <<>>
    /\ nextId = 1
    /\ now = 0
    /\ callStack = <<>>
    /\ proxy = "repo"
    /\ failures = 0
    /\ mountLoad = "done"

SaveHistory ==
    /\ nextSessionId <= MaxAppends
    /\ examHistory' = saveExamHistory(examHistory, HistoryRecord(nextSessionId))
    /\ nextSessionId' = nextSessionId + 1
    /\ UNCHANGED <<state, timerRef, ticks>>
    /\ UNCHANGED admin

HistoryNext == SaveHistory

HistorySpec == HistoryInit /\ [][HistoryNext]_vars

\* ---------------------------------------------------------------------------
\* Aggregate specification: a practice session over a bank with two questions
\* of topic X and one of topic Y; the user answers, submits and navigates
\* (back-navigation and resubmission included) and then finishes once.
TopicBank ==
    Bank \o << [id |-> 3, topic |-> "X", options |-> <<0, 1, 2>>,
                correctAnswers |-> <<0>>] >>

AggregateConfigs ==
    {Configuration(t, FALSE, FALSE, [num |-> 1, den |-> 64]) : t \in {{}, {"X"}}}

AggregateAnswers == {<<0>>, <<1, 0>>}

AggregateInit ==
    /\ \E c \in AggregateConfigs : \E cur \in StartOutcomes(c, TopicBank) :
         state = practiceReducer(initialState,
                   [type |-> "START_SESSION", configuration |-> c,
                    questions |-> TopicBank, currentQuestions |-> cur, sessionId |-> 1])
    /\ timerRef = TimerEffect(initialState, state, NULL)
    /\ examHistory = <<>>
    /\ nextSessionId = 2
    /\ ticks = 0
    /\ modifications = NoModifications
    /\ editingQuestion = NULL
    /\ mockStorage = <<>>
    /\ nextId = 1
    /\ now = 0
    /\ callStack = <<>>
    /\ proxy = "repo"
    /\ failures = 0
    /\ mountLoad = "done"

AggregateAnswer ==
    /\ ~Complete(state)
    /\ \E answers \in AggregateAnswers :
         Dispatch([type |-> "ANSWER_QUESTION", answers |-> answers])
    /\ UNCHANGED <<nextSessionId, ticks>>

AggregateSubmit ==
    /\ ~Complete(state)
    /\ Dispatch([type |-> "SUBMIT_ANSWER"])
    /\ Len(state'.session.progress.questionResults) <= MaxSubmits
    /\ UNCHANGED <<nextSessionId, ticks>>

AggregateForward == ~Complete(state) /\ NextQuestion

AggregateBack == ~Complete(state) /\ PreviousQuestion

AggregateFinish == ~Complete(state) /\ FinishSession

AggregateNext ==
    \/ AggregateAnswer
    \/ AggregateSubmit
    \/ AggregateForward
    \/ AggregateBack
    \/ AggregateFinish

AggregateSpec == AggregateInit /\ [][AggregateNext]_vars

\* ---------------------------------------------------------------------------
\* Flow specification: the reducer driven directly through the context's
\* operations, with the inputs the practice page never sends: a topic filter
\* that matches no question and an answer naming an id that is no option.
FlowConfigs ==
    {Configuration(t, FALSE, e, [num |-> 1, den |-> 64]) :
        t \in {{}, {"Z"}}, e \in BOOLEAN}

FlowAnswers == {<<0>>, <<7>>}

FlowStart ==
    /\ nextSessionId <= MaxSessions
    /\ \E configuration \in FlowConfigs :
         \E cur \in StartOutcomes(configuration, Bank) :
           Dispatch([type |-> "START_SESSION", configuration |-> configuration,
                     questions |-> Bank, currentQuestions |-> cur,
                     sessionId |-> nextSessionId])
    /\ nextSessionId' = nextSessionId + 1
    /\ ticks' = 0

FlowAnswer ==
    /\ \E answers \in FlowAnswers :
         Dispatch([type |-> "ANSWER_QUESTION", answers |-> answers])
    /\ UNCHANGED <<nextSessionId, ticks>>

FlowNext ==
    \/ FlowStart
    \/ FlowAnswer
    \/ SubmitAnswer
    \/ NextQuestion
    \/ PreviousQuestion
    \/ Tick

FlowSpec == Init /\ [][FlowNext]_vars

\* ---------------------------------------------------------------------------
\* Shuffle specification: sessions started with every combination of topic
\* filter, question shuffle and option shuffle.
ShuffleConfigs ==
    {[Configuration(t, s, FALSE, [num |-> 1, den |-> 64]) EXCEPT !.shuffleOptions = o] :
        t \in {{}, {"X"}}, s \in BOOLEAN, o \in BOOLEAN}

ShuffleStart ==
    /\ nextSessionId <= MaxSessions
    /\ \E configuration \in ShuffleConfigs :
         \E cur \in StartOutcomes(configuration, Bank) :
           Dispatch([type |-> "START_SESSION", configuration |-> configuration,
                     questions |-> Bank, currentQuestions |-> cur,
                     sessionId |-> nextSessionId])
    /\ nextSessionId' = nextSessionId + 1
    /\ ticks' = 0

ShuffleNext == ShuffleStart

ShuffleSpec == Init /\ [][ShuffleNext]_vars

\* ---------------------------------------------------------------------------
\* Timer specification: sessions started with and without a timer, the
\* interval, and pausing and resuming through the context's operations.
TimerConfigs ==
    {Configuration(t, FALSE, e, [num |-> 1, den |-> d]) :
        t \in {{}, {"X"}, {"Z"}}, e \in BOOLEAN, d \in {64, 32, 2}}

TimerStart ==
    /\ nextSessionId <= MaxSessions
    /\ \E configuration \in TimerConfigs :
         \E cur \in StartOutcomes(configuration, Bank) :
           Dispatch([type |-> "START_SESSION", configuration |-> configuration,
                     questions |-> Bank, currentQuestions |-> cur,
                     sessionId |-> nextSessionId])
    /\ nextSessionId' = nextSessionId + 1
    /\ ticks' = 0

\* pauseTimer() called while the interval's callback is due: both dispatches
\* are queued before React renders, the reducer runs PAUSE_TIMER and then the
\* UPDATE_TIMER of the callback, and the effects run once on the outcome
PauseWithQueuedTick ==
    /\ timerRef # NULL
    /\ LET post == practiceReducer(practiceReducer(state, [type |-> "PAUSE_TIMER"]),
                                   [type |-> "UPDATE_TIMER",
                                    timeRemaining |-> timerRef.captured - 1])
       IN /\ state' = post
          /\ timerRef' = TimerEffect(state, post, timerRef)
          /\ examHistory' = HistoryEffect(state, post, examHistory)
          /\ Len(examHistory') <= MaxHistory
    /\ ticks' = ticks + 1
    /\ UNCHANGED nextSessionId
    /\ UNCHANGED admin

TimerNext ==
    \/ TimerStart
    \/ Tick
    \/ PauseTimer
    \/ ResumeTimer
    \/ PauseWithQueuedTick

TimerSpec == Init /\ [][TimerNext]_vars

\* ---------------------------------------------------------------------------
\* Provider specification: startSession awaits loadQuestionsFromFile, whose
\* fetch of /api/questions either answers with the parsed questions or fails.
sampleQuestions ==
    << [id |-> 3, topic |-> "C", options |-> <<0, 1, 2, 3>>,
        correctAnswers |-> <<0, 1>>] >>

\* the outcomes of fetch('/api/questions'): a good response carrying the
\* server's questions, or a failure (rejected fetch or response.ok false)
FetchedResponse == [ok |-> TRUE, questions |-> Bank]

FailedResponse == [ok |-> FALSE]

loadQuestionsFromFile(response) ==
    IF response.ok THEN response.questions ELSE sampleQuestions

ProviderConfigs ==
    {Configuration(t, FALSE, FALSE, [num |-> 1, den |-> 64]) : t \in {{}, {"X"}}}

\* startSession: await loadQuestionsFromFile(), then dispatch START_SESSION
StartSessionFetched ==
    /\ nextSessionId <= MaxSessions
    /\ \E configuration \in ProviderConfigs :
         LET questions == loadQuestionsFromFile(FetchedResponse)
         IN \E cur \in StartOutcomes(configuration, questions) :
              Dispatch([type |-> "START_SESSION", configuration |-> configuration,
                        questions |-> questions, currentQuestions |-> cur,
                        sessionId |-> nextSessionId])
    /\ nextSessionId' = nextSessionId + 1
    /\ ticks' = 0

StartSessionFetchFailed ==
    /\ nextSessionId <= MaxSessions
    /\ \E configuration \in ProviderConfigs :
         LET questions == loadQuestionsFromFile(FailedResponse)
         IN \E cur \in StartOutcomes(configuration, questions) :
              Dispatch([type |-> "START_SESSION", configuration |-> configuration,
                        questions |-> questions, currentQuestions |-> cur,
                        sessionId |-> nextSessionId])
    /\ nextSessionId' = nextSessionId + 1
    /\ ticks' = 0

ProviderNext ==
    \/ StartSessionFetched
    \/ StartSessionFetchFailed
    \/ AnswerQuestion
    \/ SubmitAnswer
    \/ NextQuestion
    \/ PreviousQuestion

ProviderSpec == Init /\ [][ProviderNext]_vars

\* ---------------------------------------------------------------------------
\* Admin specification: the administrator edits answer keys and saves them as
\* question modifications, and sessions are started next to that.
practice == <<state, timerRef, examHistory, nextSessionId, ticks, mountLoad>>

\* the in-memory modification store of the API route and its clock
store == <<mockStorage, nextId, now>>

\* the Edge-Function storage manager: the frames of its running calls and
\* the proxy that answers its requests
manager == <<callStack, proxy, failures>>

RECURSIVE CorrectIds(_)
\* options.filter(opt => opt.isCorrect).map(opt => opt.id)
CorrectIds(options) ==
    IF options = <<>> THEN <<>>
    ELSE (IF Head(options).isCorrect THEN <<Head(options).id>> ELSE <<>>)
           \o CorrectIds(Tail(options))

\* parseQuestionsFromMarkdown for one question: one option per option line,
\* flagged by its check mark, and the key filtered from the flags
ParseQuestion(id, topic, marks) ==
    LET options == [i \in DOMAIN marks |-> [id |-> i - 1, isCorrect |-> marks[i]]]
    IN [id |-> id, topic |-> topic, options |-> options,
        correctAnswers |-> CorrectIds(options)]

\* the questions /api/questions serves, as the admin page receives them
RawQuestions ==
    << ParseQuestion(1, "X", <<TRUE, FALSE, FALSE>>),
       ParseQuestion(2, "Y", <<TRUE, TRUE, FALSE>>) >>

applyModifications(questions, stored) ==
    [i \in DOMAIN questions |->
       LET question == questions[i]
           modification == stored[question.id]
       IN IF modification = NULL THEN question
          ELSE [question EXCEPT
                  !.correctAnswers = modification.correctAnswers,
                  !.options =
                     [k \in DOMAIN modification.options |->
                        [modification.options[k] EXCEPT
                           !.isCorrect =
                              \E j \in DOMAIN modification.correctAnswers :
                                 modification.correctAnswers[j]
                                   = modification.options[k].id]]]]

toggleCorrectAnswer(prev, optionId) ==
    LET updatedOptions ==
            [k \in DOMAIN prev.options |->
               IF prev.options[k].id = optionId
               THEN [prev.options[k] EXCEPT !.isCorrect = ~prev.options[k].isCorrect]
               ELSE prev.options[k]]
    IN [prev EXCEPT !.options = updatedOptions,
                    !.correctAnswers = CorrectIds(updatedOptions)]

\* the admin page's question list: loaded through applyQuestionModifications
\* and kept in step with every save
AdminQuestions == applyModifications(RawQuestions, modifications)

HandleEditQuestion ==
    /\ \E i \in DOMAIN AdminQuestions : editingQuestion' = AdminQuestions[i]
    /\ UNCHANGED modifications
    /\ UNCHANGED practice
    /\ UNCHANGED store
    /\ UNCHANGED manager

ToggleCorrectAnswer ==
    /\ editingQuestion # NULL
    /\ \E k \in DOMAIN editingQuestion.options :
         editingQuestion' = toggleCorrectAnswer(editingQuestion, editingQuestion.options[k].id)
    /\ UNCHANGED modifications
    /\ UNCHANGED practice
    /\ UNCHANGED store
    /\ UNCHANGED manager

\* handleSaveQuestion with both requests answered: saveQuestionModification
\* stores the edited key and options under the question's id
HandleSaveQuestion ==
    /\ editingQuestion # NULL
    /\ modifications' =
         [modifications EXCEPT ![editingQuestion.id] =
            [correctAnswers |-> editingQuestion.correctAnswers,
             options |-> editingQuestion.options]]
    /\ editingQuestion' = NULL
    /\ UNCHANGED practice
    /\ UNCHANGED store
    /\ UNCHANGED manager

HandleCancelEdit ==
    /\ editingQuestion # NULL
    /\ editingQuestion' = NULL
    /\ UNCHANGED modifications
    /\ UNCHANGED practice
    /\ UNCHANGED store
    /\ UNCHANGED manager

AdminNext ==
    \/ HandleEditQuestion
    \/ ToggleCorrectAnswer
    \/ HandleSaveQuestion
    \/ HandleCancelEdit
    \/ StartSessionFetched
    \/ AnswerQuestion
    \/ SubmitAnswer

AdminSpec == Init /\ [][AdminNext]_vars

\* ---------------------------------------------------------------------------
\* Auto-advance specification: sessions with autoAdvance on and off in which
\* the user answers and submits but never presses a navigation button; the
\* interval keeps ticking in exam mode.
AutoAdvanceConfigs ==
    {[Configuration(t, s, e, [num |-> 1, den |-> d]) EXCEPT !.autoAdvance = a] :
        t \in {{}, {"X"}}, s \in BOOLEAN, e \in BOOLEAN, d \in {64, 32, 16},
        a \in BOOLEAN}

AutoAdvanceInit ==
    /\ \E c \in AutoAdvanceConfigs : \E cur \in StartOutcomes(c, Bank) :
         state = practiceReducer(initialState, StartAction(c, cur, 1))
    /\ timerRef = TimerEffect(initialState, state, NULL)
    /\ examHistory = <<>>
    /\ nextSessionId = 2
    /\ ticks = 0
    /\ modifications = NoModifications
    /\ editingQuestion = NULL
    /\ mockStorage = <<>>
    /\ nextId = 1
    /\ now = 0
    /\ callStack = <<>>
    /\ proxy = "repo"
    /\ failures = 0
    /\ mountLoad = "done"

AutoAdvanceNext ==
    \/ AnswerQuestion
    \/ SubmitAnswer
    \/ Tick

AutoAdvanceSpec == AutoAdvanceInit /\ [][AutoAdvanceNext]_vars /\ WF_vars(Tick)

\* ---------------------------------------------------------------------------
\* Store specification: the API route's in-memory modification store under
\* any sequence of POST and DELETE requests.  Each handler runs to its end
\* without a further await once the request body is read, so a request is one
\* step.
MaxIds == 3
MaxTime == 2

StoreQuestionIds == {1, 2}

\* request bodies as saveModification sends them: a numeric question_id, the
\* key and the options
Bodies ==
    [question_id : StoreQuestionIds,
     correct_answers : {<<0>>, <<0, 1>>},
     options : {<<[id |-> 0, isCorrect |-> TRUE], [id |-> 1, isCorrect |-> FALSE]>>,
                <<[id |-> 0, isCorrect |-> TRUE], [id |-> 1, isCorrect |-> TRUE]>>}]

\* the questionId search parameters of a DELETE: none, or one number (one of
\* them not stored by any POST)
DeleteParams == {<<>>} \cup {<<q>> : q \in StoreQuestionIds \cup {3}}

findIndexNever(storage, question_id) == 0

\* mockStorage.findIndex(m => m.question_id === ...), 0 for "not found"
findIndex(storage, question_id) ==
    IF \E i \in DOMAIN storage : storage[i].question_id = question_id
    THEN CHOOSE i \in DOMAIN storage :
           /\ storage[i].question_id = question_id
           /\ \A j \in 1..(i - 1) : storage[j].question_id # question_id
    ELSE 0

\* mockStorage.splice(index, 1)
splice(storage, index) ==
    [i \in 1..(Len(storage) - 1) |->
       IF i < index THEN storage[i] ELSE storage[i + 1]]

\* GET with a questionId: the first entry of that question, or 404
GET(questionId) ==
    LET index == findIndex(mockStorage, questionId)
    IN IF index = 0 THEN [status |-> 404]
       ELSE [status |-> 200, body |-> mockStorage[index]]

POST(body) ==
    LET existingIndex == findIndex(mockStorage, body.question_id)
    IN /\ existingIndex = 0 => nextId <= MaxIds
       /\ \E created \in now..MaxTime : \E updated \in created..MaxTime :
            LET modification ==
                    [id |-> IF existingIndex > 0 THEN mockStorage[existingIndex].id
                            ELSE nextId,
                     question_id |-> body.question_id,
                     correct_answers |-> body.correct_answers,
                     options |-> body.options,
                     created_at |-> IF existingIndex > 0
                                    THEN mockStorage[existingIndex].created_at
                                    ELSE created,
                     updated_at |-> updated]
            IN /\ mockStorage' =
                    IF existingIndex > 0
                    THEN [mockStorage EXCEPT ![existingIndex] = modification]
                    ELSE Append(mockStorage, modification)
               /\ now' = updated
       /\ nextId' = IF existingIndex > 0 THEN nextId ELSE nextId + 1
       /\ UNCHANGED <<practice, modifications, editingQuestion, manager>>

DELETE(questionId) ==
    /\ IF questionId # <<>>
       THEN LET index == findIndex(mockStorage, questionId[1])
            IN /\ mockStorage' = IF index > 0 THEN splice(mockStorage, index)
                                 ELSE mockStorage
               /\ nextId' = nextId
       ELSE /\ mockStorage' = <<>>
            /\ nextId' = 1
    /\ UNCHANGED now
    /\ UNCHANGED <<practice, modifications, editingQuestion, manager>>

Post ==
    /\ \E body \in Bodies : POST(body)

Delete ==
    /\ \E questionId \in DeleteParams : DELETE(questionId)

StoreNext ==
    \/ Post
    \/ Delete

StoreSpec == Init /\ [][StoreNext]_vars

\* ---------------------------------------------------------------------------
\* Edge specification: the Edge-Function storage manager.  The table of the
\* proxy is `modifications`; every await of the manager is one step of the
\* frame on top of callStack.  The manager calls
\* <base>/-question-modifications-proxy, which is not the name of the
\* repository's function, so the proxy is either the repository's Edge
\* Function ("repo") or one that answers the routes as the manager reads them
\* ("bare": an array for the list, the row or 404 for one question).
MaxDepth == 4
MaxFailures == 1

Proxies == {"repo", "bare"}

EdgePayloads ==
    {[correctAnswers |-> <<0>>,
      options |-> <<[id |-> 0, isCorrect |-> TRUE], [id |-> 1, isCorrect |-> FALSE]>>],
     [correctAnswers |-> <<1>>,
      options |-> <<[id |-> 0, isCorrect |-> FALSE], [id |-> 1, isCorrect |-> TRUE]>>]}

\* a request is answered (ok) or fails on the network; the catch of every
\* method handles both a failed fetch and an answer that is not ok
Fetch(ok) ==
    /\ ~ok => failures < MaxFailures
    /\ failures' = IF ok THEN failures ELSE failures + 1

\* getModifications(): the repository's function answers {success, data}, on
\* which data.forEach throws and the catch returns {}; a bare array gives one
\* entry per row; a failed fetch gives {}
getModifications(ok) ==
    IF ok /\ proxy = "bare" THEN modifications ELSE NoModifications

\* getModification(questionId): the repository's function has no
\* /question/<id> route (parseInt("question") finds no row, the answer is not
\* ok) and the manager returns null; otherwise the row or null
getModification(questionId, ok) ==
    IF ok /\ proxy = "bare" THEN modifications[questionId] ELSE NULL

RECURSIVE KeysFrom(_, _)
\* Object.keys(allMods): the integer keys in ascending order
KeysFrom(allMods, k) ==
    IF k \notin DOMAIN allMods THEN <<>>
    ELSE (IF allMods[k] # NULL THEN <<k>> ELSE <<>>) \o KeysFrom(allMods, k + 1)

RemoveFrame(questionId) ==
    [fn |-> "removeModification", questionId |-> questionId,
     pc |-> "getModification", pending |-> <<>>, allMods |-> NoModifications,
     before |-> modifications]

ClearFrame ==
    [fn |-> "clearModifications", questionId |-> 0,
     pc |-> "getModifications", pending |-> <<>>, allMods |-> NoModifications,
     before |-> modifications]

Top == callStack[Len(callStack)]

Pop(stack) == SubSeq(stack, 1, Len(stack) - 1)

\* the top frame is replaced by `frame` and calls `callee`
Call(frame, callee) ==
    /\ Len(callStack) < MaxDepth
    /\ callStack' = Append(Append(Pop(callStack), frame), callee)

\* saveQuestionModification from the page: POST, an upsert on question_id
SaveModification ==
    /\ callStack = <<>>
    /\ \E q \in DOMAIN modifications : \E payload \in EdgePayloads :
         modifications' = [modifications EXCEPT ![q] = payload]
    /\ UNCHANGED <<practice, editingQuestion, store, manager>>

CallRemoveModification ==
    /\ callStack = <<>>
    /\ \E q \in DOMAIN modifications : callStack' = <<RemoveFrame(q)>>
    /\ UNCHANGED <<practice, modifications, editingQuestion, store, proxy, failures>>

CallClearModifications ==
    /\ callStack = <<>>
    /\ callStack' = <<ClearFrame>>
    /\ UNCHANGED <<practice, modifications, editingQuestion, store, proxy, failures>>

\* removeModification after `await this.getModification(questionId)`
RemoveAfterGetModification ==
    /\ callStack # <<>>
    /\ Top.fn = "removeModification"
    /\ Top.pc = "getModification"
    /\ \E ok \in BOOLEAN :
         /\ Fetch(ok)
         /\ IF getModification(Top.questionId, ok) = NULL
            THEN callStack' = Pop(callStack)
            ELSE callStack' = Append(Pop(callStack), [Top EXCEPT !.pc = "getModifications"])
    /\ UNCHANGED <<practice, modifications, editingQuestion, store, proxy>>

\* removeModification after `await this.getModifications()`: it returns when
\* the row is missing, else it calls clearModifications()
RemoveAfterGetModifications ==
    /\ callStack # <<>>
    /\ Top.fn = "removeModification"
    /\ Top.pc = "getModifications"
    /\ \E ok \in BOOLEAN :
         LET allMods == getModifications(ok)
             remainingMods == [allMods EXCEPT ![Top.questionId] = NULL]
         IN /\ Fetch(ok)
            /\ IF allMods[Top.questionId] = NULL
               THEN callStack' = Pop(callStack)
               ELSE Call([Top EXCEPT !.pc = "recreate", !.allMods = remainingMods,
                                     !.pending = KeysFrom(remainingMods, 1)],
                         ClearFrame)
    /\ UNCHANGED <<practice, modifications, editingQuestion, store, proxy>>

\* removeModification after clearModifications() or a saveModification()
\* returned: the next remaining modification is posted again (a failed POST
\* throws into the catch of removeModification), or it returns
RemoveRecreate ==
    /\ callStack # <<>>
    /\ Top.fn = "removeModification"
    /\ Top.pc = "recreate"
    /\ IF Top.pending = <<>>
       THEN /\ callStack' = Pop(callStack)
            /\ UNCHANGED <<modifications, failures>>
       ELSE \E ok \in BOOLEAN :
              /\ Fetch(ok)
              /\ IF ok
                 THEN /\ modifications' =
                           [modifications EXCEPT
                              ![Head(Top.pending)] = Top.allMods[Head(Top.pending)]]
                      /\ callStack' = Append(Pop(callStack),
                                             [Top EXCEPT !.pending = Tail(Top.pending)])
                 ELSE /\ UNCHANGED modifications
                      /\ callStack' = Pop(callStack)
    /\ UNCHANGED <<practice, editingQuestion, store, proxy>>

\* clearModifications after `await this.getModifications()`
ClearAfterGetModifications ==
    /\ callStack # <<>>
    /\ Top.fn = "clearModifications"
    /\ Top.pc = "getModifications"
    /\ \E ok \in BOOLEAN :
         LET pending == KeysFrom(getModifications(ok), 1)
         IN /\ Fetch(ok)
            /\ IF pending = <<>>
               THEN callStack' = Pop(callStack)
               ELSE Call([Top EXCEPT !.pc = "loop", !.pending = Tail(pending)],
                         RemoveFrame(Head(pending)))
    /\ UNCHANGED <<practice, modifications, editingQuestion, store, proxy>>

\* clearModifications after a removeModification() of its loop returned
ClearLoop ==
    /\ callStack # <<>>
    /\ Top.fn = "clearModifications"
    /\ Top.pc = "loop"
    /\ IF Top.pending = <<>>
       THEN callStack' = Pop(callStack)
       ELSE Call([Top EXCEPT !.pending = Tail(Top.pending)],
                 RemoveFrame(Head(Top.pending)))
    /\ UNCHANGED <<practice, modifications, editingQuestion, store, proxy, failures>>

EdgeInit ==
    /\ state = initialState
    /\ timerRef = NULL
    /\ examHistory = <<>>
    /\ nextSessionId = 1
    /\ ticks = 0
    /\ modifications = NoModifications
    /\ editingQuestion = NULL
    /\ mockStorage = <<>>
    /\ nextId = 1
    /\ now = 0
    /\ callStack = <<>>
    /\ proxy \in Proxies
    /\ failures = 0
    /\ mountLoad = "done"
    /\ mountLoad = "done"

EdgeNext ==
    \/ SaveModification
    \/ CallRemoveModification
    \/ CallClearModifications
    \/ RemoveAfterGetModification
    \/ RemoveAfterGetModifications
    \/ RemoveRecreate
    \/ ClearAfterGetModifications
    \/ ClearLoop

EdgeSpec == EdgeInit /\ [][EdgeNext]_vars

\* ---------------------------------------------------------------------------
\* Mount specification: the provider's mount effect has called
\* loadQuestionsFromFile() and its fetch is still in flight when the page
\* becomes usable; the user's startSession runs its own fetch, and the two
\* resolve in either order.
MountInit ==
    /\ state = initialState
    /\ timerRef = NULL
    /\ examHistory = <<>>
    /\ nextSessionId = 1
    /\ ticks = 0
    /\ modifications = NoModifications
    /\ editingQuestion = NULL
    /\ mockStorage = <<>>
    /\ nextId = 1
    /\ now = 0
    /\ callStack = <<>>
    /\ proxy = "repo"
    /\ failures = 0
    /\ mountLoad = "pending"

\* loadQuestions of the mount effect after its await: loadQuestionsFromFile
\* never rejects, so RESET_SESSION is dispatched
MountLoadResolved ==
    /\ mountLoad = "pending"
    /\ mountLoad' = "done"
    /\ LET post == practiceReducer(state, [type |-> "RESET_SESSION"])
       IN /\ state' = post
          /\ timerRef' = TimerEffect(state, post, timerRef)
          /\ examHistory' = HistoryEffect(state, post, examHistory)
    /\ UNCHANGED <<nextSessionId, ticks, modifications, editingQuestion, store, manager>>

MountNext ==
    \/ MountLoadResolved
    \/ StartSessionFetched
    \/ StartSessionFetchFailed
    \/ AnswerQuestion
    \/ SubmitAnswer
    \/ NextQuestion
    \/ ResetSession

MountSpec == MountInit /\ [][MountNext]_vars

\* ===========================================================================
\* Properties
\* ===========================================================================
QuestionResults == state.session.progress.questionResults

\* the set of members of an array
Elems(s) == {s[i] : i \in DOMAIN s}

SubmitAction == [type |-> "SUBMIT_ANSWER"]

IsPrefix(a, b) == Len(a) <= Len(b) /\ SubSeq(b, 1, Len(a)) = a

CountOf(stored, id) == Cardinality({i \in DOMAIN stored : stored[i].sessionId = id})

\* C1: every QuestionResult appended by SUBMIT_ANSWER has isCorrect = TRUE if
\* and only if its selected answers and the question's correct answers are
\* equal as sets; a same-length selection that is not the same set (one with
\* a repeated id included) is scored incorrect.
C1_IsCorrectIffSetEqual ==
    state.session # NULL =>
      \A i \in DOMAIN QuestionResults :
         LET selected == QuestionResults[i].selectedAnswers
             correct == QuestionResults[i].correctAnswers
         IN /\ QuestionResults[i].isCorrect => Elems(selected) = Elems(correct)
            /\ (Elems(selected) = Elems(correct) /\ Len(selected) = Len(correct))
                 => QuestionResults[i].isCorrect

\* C2: questionResults holds at most one QuestionResult per question id, so
\* its length never exceeds the number of questions of the session.
C2_OneResultPerQuestion ==
    state.session # NULL =>
      /\ \A i, j \in DOMAIN QuestionResults :
           QuestionResults[i].questionId = QuestionResults[j].questionId => i = j
      /\ Len(QuestionResults) <= Len(state.questions.current)

\* C3: submit is idempotent: in the state a SUBMIT_ANSWER leaves behind, a
\* second SUBMIT_ANSWER with nothing in between changes nothing (neither
\* questionResults nor the counters, nor the history log or the interval).
C3_SubmitIdempotent ==
    [][SubmitAnswer =>
         LET again == practiceReducer(state', SubmitAction)
         IN /\ again = state'
            /\ HistoryEffect(state', again, examHistory') = examHistory'
            /\ TimerEffect(state', again, timerRef') = timerRef']_vars

\* a question has been scored and is marked submitted: the state in which the
\* second of two consecutive submits is dispatched (and which it leaves)
C3_Witness ==
    /\ state.session # NULL
    /\ state.answers.isSubmitted
    /\ Len(QuestionResults) = 1
    /\ state.session.progress.answeredQuestions = 1
    /\ practiceReducer(state, SubmitAction) = state

\* C4: once a session has results and endTime set, every later action on it
\* leaves questionResults, results, endTime, the current index, the answer
\* buffer and the timer unchanged; only RESET_SESSION or a new START_SESSION
\* replaces the session.
C4_CompleteIsTerminal ==
    [][(/\ Complete(state)
        /\ state'.session # NULL
        /\ state'.session.id = state.session.id)
         => /\ state'.session = state.session
            /\ state'.questions.currentIndex = state.questions.currentIndex
            /\ state'.answers = state.answers]_vars

\* C5: whenever the session is Complete or there is no session, the timer is
\* stopped: timer.isActive is false and no interval is scheduled.
C5_TimerStoppedWhenOver ==
    /\ state.session = NULL => timerRef = NULL
    /\ Complete(state) => (~state.session.timer.isActive /\ timerRef = NULL)

\* C6: results and endTime are computed once per session: a tick after the
\* session is Complete never recomputes them.
C6_NoRecomputeByTick ==
    [][(Tick /\ Complete(state))
         => /\ state'.session.results = state.session.results
            /\ state'.session.endTime = state.session.endTime]_vars

\* C7: an exam session with totalTimeAllowed = N > 0 that is never paused,
\* finished or reset is Complete after exactly N firings of the interval, not
\* before and not later; timeRemaining is then 0, the results are computed
\* once, and results.totalQuestions = results.questionResults.length, the
\* questions submitted by then.
C7_ExpiryInv ==
    LET session == state.session IN
    /\ session # NULL /\ session.timer.totalTimeAllowed > 0
    /\ ticks <= session.timer.totalTimeAllowed
    /\ ticks + session.timer.timeRemaining = session.timer.totalTimeAllowed
    /\ Complete(state) <=> ticks = session.timer.totalTimeAllowed
    /\ Complete(state) =>
         /\ session.timer.timeRemaining = 0
         /\ ~session.timer.isActive
         /\ session.results.totalQuestions = Len(session.results.questionResults)
         /\ IsPrefix(session.results.questionResults, session.progress.questionResults)

C7_TimerExpiry ==
    /\ []C7_ExpiryInv
    /\ [][(Tick /\ Complete(state'))
            => state'.session.results.questionResults
                 = state.session.progress.questionResults]_vars
    /\ [][Complete(state) => state'.session.results = state.session.results]_vars
    /\ <>Complete(state)

\* the timer of a two-second exam ran out after one of two questions was
\* submitted
C7_Witness ==
    /\ Complete(state)
    /\ state.session.timer.totalTimeAllowed >= 2
    /\ ticks = state.session.timer.totalTimeAllowed
    /\ state.session.results.totalQuestions = 1
    /\ Len(state.questions.current) = 2

\* C8: the stored history holds exactly one record for every exam session
\* that is Complete, and never two records with the same sessionId.
C8_HistoryOncePerSession ==
    /\ \A id \in 1..MaxSessions : CountOf(examHistory, id) <= 1
    /\ (Complete(state) /\ state.session.mode = "exam")
         => CountOf(examHistory, state.session.id) = 1

\* C9: no operation on a session started with timerEnabled = FALSE appends to
\* the history log: every step that changes the log adds a record of the
\* current session, and that session was started with timerEnabled = TRUE.
C9_PracticeNeverPersisted ==
    [][examHistory' # examHistory
         => /\ state.session # NULL /\ state'.session # NULL
            /\ state'.session.id = state.session.id
            /\ state'.session.configuration.timerEnabled
            /\ examHistory' = <<ExamHistoryOf(state')>> \o examHistory]_vars

\* a practice session is Complete, its timer has been resumed, and the log
\* has no record of it
C9_Witness ==
    /\ Complete(state)
    /\ ~state.session.configuration.timerEnabled
    /\ state.session.timer.isActive
    /\ Len(QuestionResults) >= 1
    /\ CountOf(examHistory, state.session.id) = 0

\* C10: getExamHistory() returns the most recently saved records, newest
\* first, and never more than HistoryLimit = 50 of them; a save onto a full
\* log evicts exactly the oldest record and keeps the others in order.
C10_ListInv ==
    LET list == getExamHistory(examHistory)
        saved == nextSessionId - 1
    IN /\ Len(list) <= HistoryLimit
       /\ \A i \in DOMAIN list :
            list[i].sessionId = IF i <= saved THEN saved - i + 1 ELSE saved - i

C10_HistoryNewestFirstCapped ==
    /\ []C10_ListInv
    /\ [][SaveHistory =>
            LET old == getExamHistory(examHistory)
                new == getExamHistory(examHistory')
            IN /\ Len(new) = IF Len(old) < HistoryLimit THEN Len(old) + 1
                             ELSE HistoryLimit
               /\ new[1].sessionId = nextSessionId
               /\ \A i \in 2..Len(new) : new[i] = old[i - 1]]_vars

\* a full log after MaxAppends saves, the oldest earlier records evicted
C10_Witness ==
    /\ Len(getExamHistory(examHistory)) = HistoryLimit
    /\ nextSessionId - 1 = MaxAppends
    /\ examHistory[1].sessionId = MaxAppends
    /\ examHistory[HistoryLimit].sessionId = MaxAppends - HistoryLimit


\* the topics of a question list
TopicsOf(questions) == {questions[i].topic : i \in DOMAIN questions}

\* positions of the questions of one topic
InTopic(questions, topic) == {i \in DOMAIN questions : questions[i].topic = topic}

\* positions in questionResults of the results recorded for a question id
ResultsFor(questionResults, id) ==
    {j \in DOMAIN questionResults : questionResults[j].questionId = id}

\* n is x / y as a percentage rounded half up
IsRoundedPercent(n, x, y) == 2 * y * n <= 200 * x + y /\ 200 * x + y < 2 * y * (n + 1)

Summary(res) ==
    [totalQuestions |-> res.totalQuestions, correctAnswers |-> res.correctAnswers,
     score |-> res.score, timeSpent |-> res.timeSpent, topicResults |-> res.topicResults]

\* C13: calculateResults is order-independent: for the question set and the
\* QuestionResults of a finished session, every permutation of the
\* QuestionResults yields the same totalQuestions, correctAnswers, score,
\* timeSpent and topicResults as the SessionResults computed at finish.
C13_OrderIndependent ==
    Complete(state) =>
      \A p \in shuffleArray(state.session.results.questionResults) :
        Summary(calculateResults(p, state.questions.current, 1))
          = Summary(state.session.results)


\* C14: NEXT_QUESTION issued at the last question of a session completes it as
\* FINISH_SESSION does: whenever showResults becomes true this way,
\* session.results and session.endTime are set and, in exam mode, the
\* session's history record is stored.
C14_NextAtLastCompletes ==
    [][(NextQuestion /\ state.session # NULL
          /\ ~state.ui.showResults /\ state'.ui.showResults)
         => /\ state'.session.results # NULL
            /\ state'.session.endTime # 0
            /\ (state'.session.mode = "exam"
                  => CountOf(examHistory', state'.session.id) >= 1)]_vars


\* C15: while a session is active, 0 <= questions.currentIndex <
\* questions.current.length, whatever configuration START_SESSION was given
\* and whatever NEXT_QUESTION / PREVIOUS_QUESTION were dispatched.
C15_IndexInRange ==
    (state.session # NULL /\ ~Complete(state))
      => /\ 0 <= state.questions.currentIndex
         /\ state.questions.currentIndex < Len(state.questions.current)

\* C16: START_SESSION whose topic filter leaves no questions creates no
\* session and starts no timer: a state whose question list is empty has
\* session = null, hence no timer state, and no interval scheduled.
C16_EmptyQuestionSetRejected ==
    state.questions.current = <<>>
      => /\ state.session = NULL
         /\ timerRef = NULL

\* C17: SUBMIT_ANSWER dispatched with an empty answer buffer leaves the state
\* unchanged: no QuestionResult is appended, the counters do not move and
\* isSubmitted stays as it was.
C17_EmptySubmitRejected ==
    [][(SubmitAnswer /\ state.session # NULL /\ state.answers.current = <<>>)
         => state' = state]_vars

\* C18: ANSWER_QUESTION dispatched while answers.isSubmitted is true is a
\* no-op.
C18_AnswerAfterSubmitIsNoOp ==
    [][(FlowAnswer /\ state.answers.isSubmitted) => state' = state]_vars

\* C19: every id in answers.current is an option id of the current question,
\* and every id in a recorded selectedAnswers is an option id of the question
\* the result belongs to.
C19_OnlyOptionIds ==
    state.session # NULL =>
      LET qs == state.questions.current
          i == state.questions.currentIndex + 1
      IN /\ i \in DOMAIN qs => Elems(state.answers.current) \subseteq Elems(qs[i].options)
         /\ \A j \in DOMAIN QuestionResults :
              \A q \in DOMAIN qs :
                qs[q].id = QuestionResults[j].questionId
                  => Elems(QuestionResults[j].selectedAnswers) \subseteq Elems(qs[q].options)

\* C20: whenever NEXT_QUESTION or PREVIOUS_QUESTION changes currentIndex, the
\* resulting state has an empty answer buffer and isSubmitted = false, and the
\* session with its questionResults is left as it was.
C20_NavigationClearsBuffer ==
    [][((NextQuestion \/ PreviousQuestion)
          /\ state'.questions.currentIndex # state.questions.currentIndex)
         => /\ state'.answers.current = <<>>
            /\ ~state'.answers.isSubmitted
            /\ state'.session = state.session]_vars

\* the second question is current with a cleared buffer, right after the
\* first question was answered and submitted and the user moved on
C20_Witness ==
    /\ state.session # NULL
    /\ state.questions.currentIndex = 1
    /\ state.answers.current = <<>>
    /\ ~state.answers.isSubmitted
    /\ Len(QuestionResults) = 1
    /\ QuestionResults[1].questionId = state.questions.current[1].id
    /\ QuestionResults[1].selectedAnswers # <<>>


\* two arrays hold the same members the same number of times
SameMultiset(a, b) ==
    /\ Len(a) = Len(b)
    /\ \A x \in Elems(a) \cup Elems(b) :
         Cardinality({i \in DOMAIN a : a[i] = x}) = Cardinality({i \in DOMAIN b : b[i] = x})

\* the ids of a question list, in order
IdsOf(questions) == [i \in DOMAIN questions |-> questions[i].id]

\* the question of the bank with a given id
BankQuestion(id) == Bank[CHOOSE i \in DOMAIN Bank : Bank[i].id = id]

C22_FilterExact ==
    state.session # NULL =>
      LET cur == state.questions.current
          topics == state.session.configuration.selectedTopics
          wanted == IF topics = {}
                    THEN {Bank[i].id : i \in DOMAIN Bank}
                    ELSE {Bank[i].id : i \in {k \in DOMAIN Bank : Bank[k].topic \in topics}}
      IN /\ Elems(IdsOf(cur)) = wanted
         /\ Len(cur) = Cardinality(wanted)
         /\ state.questions.totalCount = Len(cur)

\* a session filtered to topic X holds the single question of that topic
C22_Witness ==
    /\ state.session # NULL
    /\ state.session.configuration.selectedTopics = {"X"}
    /\ IdsOf(state.questions.current) = <<1>>
    /\ Len(state.questions.original) = 2


\* C23: at START_SESSION with timerEnabled, timer.totalTimeAllowed is the
\* least whole number of seconds not below questionCount * minutesPerQuestion
\* * 60, questionCount being the number of questions after topic filtering;
\* timeRemaining starts equal to it and the timer is running (active, with
\* the interval scheduled when there is time left). With timerEnabled false
\* the session has no running timer.
C23_TimerAtStart ==
    [][TimerStart =>
         LET c == state'.session.configuration
             timer == state'.session.timer
             n == Len(FilterQuestions(c, Bank))
             exact == n * c.minutesPerQuestion.num * SecondsPerMinute
             den == c.minutesPerQuestion.den
         IN IF c.timerEnabled
            THEN /\ timer.totalTimeAllowed * den >= exact
                 /\ (timer.totalTimeAllowed - 1) * den < exact
                 /\ timer.timeRemaining = timer.totalTimeAllowed
                 /\ timer.isActive
                 /\ timer.totalTimeAllowed > 0
                      => timerRef' = [captured |-> timer.totalTimeAllowed]
            ELSE /\ ~timer.isActive
                 /\ timerRef' = NULL]_vars

\* an exam session of two questions at 1/32 minute each: 3.75 s, rounded up
\* to 4, not yet ticked
C23_Witness ==
    /\ state.session # NULL
    /\ state.session.configuration.timerEnabled
    /\ state.session.configuration.minutesPerQuestion = [num |-> 1, den |-> 32]
    /\ Len(state.questions.current) = 2
    /\ state.session.timer.totalTimeAllowed = 4
    /\ state.session.timer.timeRemaining = 4
    /\ timerRef = [captured |-> 4]
    /\ ticks = 0

\* C24: pausing stops the countdown without losing elapsed time: a step that
\* dispatches PAUSE_TIMER leaves timeRemaining unchanged, tick queued with it
\* or not; no step taken while the timer is inactive changes the session's
\* timeRemaining; and RESUME_TIMER restarts the countdown from the value it
\* had at the pause.
C24_PauseKeepsTime ==
    [][/\ ((PauseTimer \/ PauseWithQueuedTick) /\ state.session # NULL)
            => state'.session.timer.timeRemaining = state.session.timer.timeRemaining
       /\ (state.session # NULL /\ ~state.session.timer.isActive
             /\ state'.session # NULL /\ state'.session.id = state.session.id)
            => state'.session.timer.timeRemaining = state.session.timer.timeRemaining
       /\ (ResumeTimer /\ state.session # NULL /\ ~state.session.timer.isActive
             /\ state.session.timer.timeRemaining > 0)
            => timerRef' = [captured |-> state.session.timer.timeRemaining]]_vars


\* C25: END_EXAM_EARLY has the identical effect to FINISH_SESSION: dispatched
\* in any active state it leads to the state FINISH_SESSION leads to, with
\* the same SessionResults, endTime and showResults set and questionResults
\* unchanged.
C25_EndEarlyIsFinish ==
    [][(EndExamEarly /\ state.session # NULL /\ ~Complete(state))
         => /\ state' = practiceReducer(state, [type |-> "FINISH_SESSION"])
            /\ state'.session.results # NULL
            /\ state'.session.endTime # 0
            /\ state'.ui.showResults
            /\ state'.session.progress.questionResults
                 = state.session.progress.questionResults]_vars


\* C26: starting a session is all-or-nothing with respect to the question
\* provider: a startSession whose fetch of the questions fails creates no
\* session and substitutes no other question set, it leaves the state as it
\* was.
C26_FailedFetchStartsNothing ==
    [][StartSessionFetchFailed => state' = state]_vars


\* C27: administrator corrections apply to future session starts: when a
\* modification of a question's correct answers is stored at the time
\* startSession runs, the session's copy of that question carries the
\* modified correctAnswers (which SUBMIT_ANSWER then scores against).
C27_CorrectionsReachSessions ==
    [][StartSessionFetched =>
         \A i \in DOMAIN state'.questions.current :
           LET question == state'.questions.current[i]
           IN modifications[question.id] # NULL
                => Elems(question.correctAnswers)
                     = Elems(modifications[question.id].correctAnswers)]_vars

\* correctAnswers is the set of ids of the options flagged isCorrect
KeyMatchesFlags(q) ==
    Elems(q.correctAnswers)
      = {q.options[k].id : k \in {j \in DOMAIN q.options : q.options[j].isCorrect}}

\* C28: for every question saved by the administrator and every question of
\* the list built by applyModifications, correctAnswers equals the set of ids
\* of its options flagged isCorrect, and that set is not empty.
C28_KeyMatchesFlagsNonEmpty ==
    /\ \A id \in DOMAIN modifications :
         modifications[id] # NULL
           => /\ KeyMatchesFlags(modifications[id])
              /\ modifications[id].correctAnswers # <<>>
    /\ \A i \in DOMAIN AdminQuestions :
         /\ KeyMatchesFlags(AdminQuestions[i])
         /\ AdminQuestions[i].correctAnswers # <<>>


\* C29: the ExamHistoryRecord stored when an exam session completes is a
\* snapshot of that session: it is the session's record and holds, for every
\* QuestionResult of the session, an answer entry with the same question id,
\* selected answers and isCorrect, so userAnswers has as many entries as the
\* session's questionResults.
C29_HistoryRecordIsSnapshot ==
    [][(examHistory' # examHistory /\ state'.session # NULL)
         => LET record == examHistory'[1]
                qr == state'.session.results.questionResults
            IN /\ record.sessionId = state'.session.id
               /\ Len(record.userAnswers) = Len(qr)
               /\ \A j \in DOMAIN qr :
                    \E k \in DOMAIN record.userAnswers :
                      /\ record.userAnswers[k].questionId = qr[j].questionId
                      /\ record.userAnswers[k].selectedAnswers = qr[j].selectedAnswers
                      /\ record.userAnswers[k].isCorrect = qr[j].isCorrect]_vars


\* C30: with configuration.autoAdvance = true, once a question that is not
\* the last one has been submitted the session eventually shows the next
\* question without a navigation action of the user; with autoAdvance = false
\* the index changes only by NEXT_QUESTION or PREVIOUS_QUESTION.
C30_AutoAdvance ==
    /\ (/\ state.session # NULL
        /\ state.session.configuration.autoAdvance
        /\ state.answers.isSubmitted
        /\ state.questions.currentIndex = 0
        /\ state.questions.totalCount > 1)
         ~> (state.questions.currentIndex = 1)
    /\ [][(state.session # NULL /\ ~state.session.configuration.autoAdvance
             /\ state'.questions.currentIndex # state.questions.currentIndex)
            => (NextQuestion \/ PreviousQuestion)]_vars


\* C31: the session mode is exam if and only if the configuration has
\* timerEnabled, otherwise practice, and it does not change while the session
\* lives.
C31_ModeFollowsTimerEnabled ==
    /\ [](state.session # NULL =>
            /\ state.session.mode \in {"exam", "practice"}
            /\ state.session.mode = "exam" <=> state.session.configuration.timerEnabled)
    /\ [][(state.session # NULL /\ state'.session # NULL
             /\ state'.session.id = state.session.id)
            => state'.session.mode = state.session.mode]_vars

\* an exam session that was paused after a tick still has mode exam
C31_Witness ==
    /\ state.session # NULL
    /\ state.session.configuration.timerEnabled
    /\ state.session.mode = "exam"
    /\ ~state.session.timer.isActive
    /\ state.session.timer.timeRemaining > 0
    /\ state.session.timer.timeRemaining < state.session.timer.totalTimeAllowed

\* C32: the modification store holds at most one modification per question_id
\* after any sequence of POST and DELETE requests; a POST for a stored
\* question_id replaces that entry in place and keeps its id and created_at,
\* and a GET for that question then returns the posted correct_answers and
\* options; DELETE with a questionId removes only that entry and DELETE
\* without one empties the store.
C32_OnePerQuestionId ==
    /\ [](\A i, j \in DOMAIN mockStorage :
            mockStorage[i].question_id = mockStorage[j].question_id => i = j)
    /\ [][\A body \in Bodies :
            POST(body) =>
              LET index == findIndex(mockStorage, body.question_id)
              IN /\ GET(body.question_id)'.status = 200
                 /\ GET(body.question_id)'.body.correct_answers = body.correct_answers
                 /\ GET(body.question_id)'.body.options = body.options
                 /\ index > 0 =>
                      /\ Len(mockStorage') = Len(mockStorage)
                      /\ mockStorage'[index].question_id = body.question_id
                      /\ mockStorage'[index].id = mockStorage[index].id
                      /\ mockStorage'[index].created_at = mockStorage[index].created_at
                      /\ \A k \in DOMAIN mockStorage :
                           k # index => mockStorage'[k] = mockStorage[k]]_vars
    /\ [][\A q \in StoreQuestionIds \cup {3} :
            DELETE(<<q>>) =>
              /\ GET(q)'.status = 404
              /\ \A other \in StoreQuestionIds : other # q => GET(other)' = GET(other)
              /\ Len(mockStorage') >= Len(mockStorage) - 1]_vars
    /\ [][DELETE(<<>>) => mockStorage' = <<>>]_vars

\* two questions are stored and the first entry was posted again later: it
\* is still first, with the id and created_at of its first POST
C32_Witness ==
    /\ Len(mockStorage) = 2
    /\ mockStorage[1].id = 1
    /\ mockStorage[2].id = 2
    /\ mockStorage[2].created_at > mockStorage[1].created_at
    /\ mockStorage[1].updated_at > mockStorage[2].created_at

\* C33: in the Edge-Function storage manager, with every request answered, a
\* clearModifications() call that returns leaves an empty store, and a
\* removeModification(q) call that returns leaves a store without q that still
\* holds every other modification it held at the call.
C33_EndsWithoutEntry ==
    [][(Len(callStack) = 1 /\ callStack' = <<>> /\ failures' = 0) =>
         LET call == callStack[1]
         IN IF call.fn = "clearModifications"
            THEN modifications' = NoModifications
            ELSE /\ modifications'[call.questionId] = NULL
                 /\ \A other \in DOMAIN modifications :
                      other # call.questionId
                        => modifications'[other] = call.before[other]]_vars

\* C34: a session created by START_SESSION is discarded only by an explicit
\* resetSession or a new start: when the mount-time question load resolves, a
\* session that exists is left as it is.
C34_MountLoadKeepsSession ==
    [][(mountLoad = "pending" /\ mountLoad' = "done" /\ state.session # NULL)
         => state'.session = state.session]_vars

RECURSIVE TopicCorrectSum(_)
\* the sum of topicResults[].correctAnswers
TopicCorrectSum(topicResults) ==
    IF topicResults = <<>> THEN 0
    ELSE Head(topicResults).correctAnswers + TopicCorrectSum(Tail(topicResults))

RECURSIVE TopicTotalSum(_)
\* the sum of topicResults[].totalQuestions
TopicTotalSum(topicResults) ==
    IF topicResults = <<>> THEN 0
    ELSE Head(topicResults).totalQuestions + TopicTotalSum(Tail(topicResults))

\* C35: in the SessionResults of every finished session the per-topic figures
\* add up to the aggregate: the topics' correctAnswers sum to
\* results.correctAnswers and the topics' totalQuestions sum to at least
\* results.totalQuestions.
C35_TopicsAddUp ==
    Complete(state) =>
      LET results == state.session.results
      IN /\ TopicCorrectSum(results.topicResults) = results.correctAnswers
         /\ TopicTotalSum(results.topicResults) >= results.totalQuestions

\* C36: PREVIOUS_QUESTION at the first question of a session leaves the
\* interaction state unchanged: the index stays 0, the answer buffer is kept
\* and isSubmitted keeps its value.
C36_PreviousAtFirstIsNoOp ==
    [][(PreviousQuestion /\ state.session # NULL /\ state.questions.currentIndex = 0)
         => /\ state'.questions.currentIndex = 0
            /\ state'.answers.current = state.answers.current
            /\ state'.answers.isSubmitted = state.answers.isSubmitted]_vars

\* C37: in every state of a session progress.answeredQuestions is the length
\* of progress.questionResults and progress.correctAnswers is the number of
\* its entries with isCorrect; while the session lives both counters never
\* decrease and questionResults only grows by appending.
C37_CountersMatchResults ==
    /\ [](state.session # NULL =>
            LET progress == state.session.progress
            IN /\ progress.answeredQuestions = Len(progress.questionResults)
               /\ progress.correctAnswers =
                    Cardinality({i \in DOMAIN progress.questionResults :
                                   progress.questionResults[i].isCorrect}))
    /\ [][(state.session # NULL /\ state'.session # NULL
             /\ state'.session.id = state.session.id)
            => /\ state'.session.progress.answeredQuestions
                    >= state.session.progress.answeredQuestions
               /\ state'.session.progress.correctAnswers
                    >= state.session.progress.correctAnswers
               /\ IsPrefix(state.session.progress.questionResults,
                           state'.session.progress.questionResults)]_vars

\* a session with one correct and one incorrect result
C37_Witness ==
    /\ state.session # NULL
    /\ state.session.progress.answeredQuestions = 2
    /\ state.session.progress.correctAnswers = 1
    /\ Len(state.session.progress.questionResults) = 2

\* C38: in every state of a session driven by the provider's timer,
\* 0 <= timeRemaining <= totalTimeAllowed; timeRemaining never increases
\* during the session and each tick lowers it by exactly 1; and
\* timeRemaining = 0 in an exam session implies that the session is Complete
\* with timer.isActive = false.
C38_TimerInvariants ==
    /\ [](state.session # NULL =>
            /\ 0 <= state.session.timer.timeRemaining
            /\ state.session.timer.timeRemaining <= state.session.timer.totalTimeAllowed
            /\ (state.session.mode = "exam" /\ state.session.timer.timeRemaining = 0)
                 => (Complete(state) /\ ~state.session.timer.isActive))
    /\ [][(state.session # NULL /\ state'.session # NULL
             /\ state'.session.id = state.session.id)
            => state'.session.timer.timeRemaining <= state.session.timer.timeRemaining]_vars
    /\ [][(Tick /\ state.session # NULL)
            => state'.session.timer.timeRemaining
                 = state.session.timer.timeRemaining - 1]_vars

\* C39: for a practice-mode session (timerEnabled = false) timer.isActive is
\* false in every state, whatever timer actions are dispatched, and no tick
\* finishes the session.
C39_PracticeTimerInactive ==
    /\ []((state.session # NULL /\ state.session.mode = "practice")
            => ~state.session.timer.isActive)
    /\ [][(Tick /\ state.session # NULL /\ state.session.mode = "practice"
             /\ ~Complete(state))
            => ~Complete(state')]_vars

\* C40: while no session exists every session action (answer, submit, next,
\* previous, finish, end early, timer update, pause, resume) leaves the whole
\* state unchanged: ui.showResults stays false and the answer buffer stays
\* empty until a START_SESSION.
C40_NoSessionNoEffect ==
    /\ [][(state.session = NULL
             /\ (\/ AnswerQuestion \/ SubmitAnswer \/ NextQuestion
                 \/ PreviousQuestion \/ FinishSession \/ EndExamEarly
                 \/ Tick \/ PauseTimer \/ ResumeTimer))
            => state' = state]_vars
    /\ [](state.session = NULL =>
            /\ ~state.ui.showResults
            /\ state.answers.current = <<>>)

====
